---- MODULE Spec2Model ----
(***************************************************************************)
(* Zen WiFi thermostat integration: the API gateway (api.py), the refresh  *)
(* cycle (coordinator.py), the climate entity's write path (climate.py)    *)
(* and the config flow (config_flow.py) as a state machine.  Cooperative   *)
(* tasks share one gateway: "cycle" runs _async_update_data, "cmd" runs a  *)
(* write issued by the climate entity; "flow" is the config flow, which    *)
(* runs against a client of its own.  A task is suspended only while a     *)
(* request is in flight; the code between two awaits is one step.          *)
(***************************************************************************)
EXTENDS Integers, Sequences, FiniteSets, TLC

\* ------------------------------------------------------------------ bounds
MaxTokens == 2         \* token grants the vendor answers with a token pair
MaxRosterShared == 1   \* longest roster while entity writes share the gateway
MaxRoster == 2         \* longest roster when the engine runs alone
MaxCode == 9           \* largest mode code passed to get_mode_string

\* --------------------------------------------------------------- constants
HTTP_UNAUTHORIZED == 401

Tasks == {"cycle", "cmd", "flow"}
NoToken == 0                      \* None: no token / no consumer id held
NoneId == "<None>"                \* device.get("id") of an entry without id
SentinelDate == "0001-01-01T00:00:00"
RealDate == "2024-05-01T10:00:00"
EntityDevice == "A"               \* the device the climate entity writes to

VARIABLES
    access_token,        \* ZenWifiApiClient._access_token
    refresh_token,       \* ZenWifiApiClient._refresh_token
    consumer_id,         \* ZenWifiApiClient._consumer_id
    issued,              \* vendor: token pairs issued so far
    call,                \* per task: the _api_wrapper call it is inside
    cpc,                 \* position of the refresh cycle
    devices,             \* _async_update_data: devices
    idx,                 \* _async_update_data: position of the for loop
    device_data,         \* _async_update_data: device_data
    fetched,             \* ids a status fetch was issued for in this cycle
    outcome,             \* how the current / last cycle ended
    data,                \* coordinator.data, the published snapshot
    published,           \* coordinator.data is no longer None
    last_update_success, \* coordinator.last_update_success
    lastRosterIds,       \* ids in the most recent successfully fetched roster
    entities,            \* device ids a climate entity was created for
    mpc,                 \* position of the entity's write
    cmdOutcome,          \* how the last write ended
    refreshRequested,    \* async_request_refresh called, not yet honoured
    fpc,                 \* config flow: position of async_step_user
    flowErrors,          \* config flow: _errors["base"] of the form shown
    mode_int,            \* get_mode_string: the argument of the last call
    mode_string          \* get_mode_string: what the last call returned

gatewayVars == <<access_token, refresh_token, consumer_id, issued>>
cycleVars == <<cpc, devices, idx, device_data, fetched, outcome, lastRosterIds>>
engineVars == <<data, published, last_update_success, entities>>
cmdVars == <<mpc, cmdOutcome>>
flowVars == <<fpc, flowErrors>>
modeVars == <<mode_int, mode_string>>
vars == <<access_token, refresh_token, consumer_id, issued, call, cpc, devices,
          idx, device_data, fetched, outcome, data, published,
          last_update_success, lastRosterIds, entities, mpc, cmdOutcome,
          refreshRequested, fpc, flowErrors,
          mode_int, mode_string>>

\* ------------------------------------------------------------ dictionaries
EmptyBody == [k \in {} |-> 0]

Get(m, k, d) == IF k \in DOMAIN m THEN m[k] ELSE d

Put(m, k, v) == [x \in DOMAIN m \cup {k} |-> IF x = k THEN v ELSE m[x]]

MergeRosterWins(device, status) ==
    [k \in DOMAIN device \cup DOMAIN status |->
        IF k \in DOMAIN device THEN device[k] ELSE status[k]]

\* {**device, **status}
Merge(device, status) ==
    [k \in DOMAIN device \cup DOMAIN status |->
        IF k \in DOMAIN status THEN status[k] ELSE device[k]]

\* a JSON body that is not an object (an array, a string, null): it has no
\* .get, so reading a field of it raises AttributeError
JsonArray == [array |-> TRUE]

IsObject(body) == body # JsonArray

\* ---------------------------------------------------------------- responses
Resp(status, json, fault) == [status |-> status, json |-> json, fault |-> fault]

NoResp == Resp(0, FALSE, "pending")

Responses ==
    { Resp(200, TRUE, "none"),       \* 2xx, content-type application/json
      Resp(200, FALSE, "none"),      \* 2xx, any other content type
      Resp(401, FALSE, "none"),
      Resp(403, FALSE, "none"),
      Resp(500, FALSE, "none"),
      Resp(0, FALSE, "timeout"),     \* async_timeout fires
      Resp(0, FALSE, "transport"),   \* aiohttp.ClientError, socket.gaierror
      Resp(200, TRUE, "decode") }    \* response.json() raises ValueError

Taxonomy == {"AuthError", "CommError", "ApiError"}

VerifyOnly403(r) ==
    IF r.status = 403 THEN "AuthError"
    ELSE IF r.status >= 400 /\ r.status # 401 THEN "ClientError"
    ELSE "none"

\* _verify_response_or_raise: the exception it raises, or "none"
VerifyResponse(r) ==
    IF r.status \in {401, 403} THEN "AuthError"
    ELSE IF r.status >= 400 THEN "ClientError"
    ELSE "none"

\* the exception raised inside the try block for a response that is not
\* sent down the refresh path
Raised(r) ==
    IF r.fault = "timeout" THEN "TimeoutError"
    ELSE IF r.fault = "transport" THEN "ClientError"
    ELSE IF VerifyResponse(r) # "none" THEN VerifyResponse(r)
    ELSE IF r.json /\ r.fault = "decode" THEN "ValueError"
    ELSE "none"

\* the except clauses of _api_wrapper
ExceptMap(e) ==
    IF e = "TimeoutError" THEN "CommError"
    ELSE IF e = "ClientError" THEN "CommError"
    ELSE IF e \in Taxonomy THEN e
    ELSE "ApiError"

Result(r) == IF Raised(r) = "none" THEN "ok" ELSE ExceptMap(Raised(r))

ReturnedParsed(r, body) == body

\* what the wrapper returns for a verified response carrying `body`
Returned(r, body) == IF r.json THEN body ELSE EmptyBody

\* ------------------------------------------------------------ vendor bodies
TokenBody(shape, n) ==
    CASE shape = "pair" -> [access_token |-> n, refresh_token |-> n]
      [] shape = "access" -> [access_token |-> n]
      [] shape = "array" -> JsonArray
      [] OTHER -> EmptyBody

Entry(id, date) == [id |-> id, provisioned |-> date, name |-> "roster"]

RosterEntries ==
    { Entry("A", RealDate), Entry("A", SentinelDate), Entry("B", RealDate),
      Entry("", ""), [provisioned |-> RealDate, name |-> "roster"] }

Rosters(entries, cap) == UNION { [1..n -> entries] : n \in 0..cap }

RosterBodies(entries, cap) ==
    { [devices |-> r] : r \in Rosters(entries, cap) } \cup { EmptyBody }

StatusBodies ==
    { [isOnline |-> TRUE, name |-> "status", currentTemperature |-> 21] }

\* the status of a device that is offline
OfflineBody == [isOnline |-> FALSE, name |-> "status", currentTemperature |-> 21]

\* the content of a response that is not application/json
TextBody == [text |-> "OK"]

\* ---------------------------------------------------------------- requests
ReqUserInfo == [kind |-> "userinfo", arg |-> "", body |-> EmptyBody]

ReqGetAll(cid) == [kind |-> "getall", arg |-> ToString(cid), body |-> EmptyBody]

ReqStatus(id) == [kind |-> "status", arg |-> id, body |-> EmptyBody]

ReqCommand(endpoint, body) == [kind |-> "command", arg |-> endpoint, body |-> body]

NoReq == [kind |-> "none", arg |-> "", body |-> EmptyBody]

BodiesFor(req, v) ==
    CASE req.kind = "userinfo" -> v.userInfo
      [] req.kind = "getall" -> RosterBodies(v.entries, v.maxRoster)
      [] req.kind = "status" -> v.statusBodies \cup {EmptyBody}
      [] OTHER -> {EmptyBody}

\* the bodies worth distinguishing for response r to request req
BodyChoices(r, req, v) ==
    IF Result(r) = "ok" /\ r.json THEN BodiesFor(req, v)
    ELSE IF Result(r) = "ok" THEN {TextBody}
    ELSE {EmptyBody}

\* the vendor as the gateway meets it: how many token grants it answers, how
\* long a roster it returns, the responses it gives
VendorShared ==
    [maxTokens |-> MaxTokens, tokenBodies |-> {"pair", "access", "none", "array"},
     responses |-> Responses, userInfo |-> {[consumerId |-> 7]},
     entries |-> {Entry(EntityDevice, RealDate)}, maxRoster |-> MaxRosterShared,
     statusBodies |-> StatusBodies]

VendorEngine ==
    [maxTokens |-> MaxTokens, tokenBodies |-> {"pair"},
     responses |-> { Resp(200, TRUE, "none"), Resp(401, FALSE, "none"),
                     Resp(500, FALSE, "none"), Resp(200, TRUE, "decode") },
     userInfo |-> {[consumerId |-> 7]},
     entries |-> RosterEntries, maxRoster |-> MaxRoster,
     statusBodies |-> StatusBodies]

\* the vendor while the entity issues writes of every mode: well-formed or
\* non-object token bodies, success with and without JSON, and 401
VendorWrite ==
    [maxTokens |-> MaxTokens, tokenBodies |-> {"pair", "array"},
     responses |-> { Resp(200, TRUE, "none"), Resp(200, FALSE, "none"),
                     Resp(401, FALSE, "none") },
     userInfo |-> {[consumerId |-> 7]},
     entries |-> {Entry(EntityDevice, RealDate)}, maxRoster |-> MaxRosterShared,
     statusBodies |-> StatusBodies]

\* the vendor answering every request of the cycle with well-formed JSON
VendorQuiet ==
    [maxTokens |-> MaxTokens, tokenBodies |-> {"pair"},
     responses |-> { Resp(200, TRUE, "none") },
     userInfo |-> {[consumerId |-> 7]},
     entries |-> {Entry(EntityDevice, RealDate)}, maxRoster |-> MaxRosterShared,
     statusBodies |-> StatusBodies]

\* ------------------------------------------------------------ _api_wrapper
\* One call of _api_wrapper with use_auth.  pc: "auth" the password grant is
\* in flight, "req1" the request, "refresh" the refresh grant, "req2" the
\* retry, "done" the call has returned or raised and its caller runs next.
NoCall ==
    [pc |-> "none", req |-> NoReq, sent |-> <<>>, nAuth |-> 0, nRefresh |-> 0,
     rtSent |-> NoToken, refreshOk |-> FALSE, newTok |-> NoToken,
     resp |-> NoResp, body |-> EmptyBody, grantResp |-> NoResp,
     result |-> "pending", payload |-> EmptyBody]

\* session.request with the Authorization header carrying tok
Transmit(c, tok) ==
    [c EXCEPT !.sent = Append(c.sent, [req |-> c.req, tok |-> tok])]

\* lines 178-205 with use_auth: authenticate first when no token is held
BeginCall(req) ==
    IF access_token = NoToken
    THEN [NoCall EXCEPT !.pc = "auth", !.req = req, !.nAuth = 1]
    ELSE [Transmit([NoCall EXCEPT !.req = req], access_token) EXCEPT !.pc = "req1"]

Finish(c, res, body) ==
    [c EXCEPT !.pc = "done", !.result = res, !.payload = body]

\* code runs from one await to the next: while a call has returned and its
\* caller has not yet reached its next await, nothing else happens
Quiescent == cpc # "end" /\ \A u \in Tasks : call[u].pc # "done"

GrantAllowed(r, v) == Result(r) = "ok" /\ r.json => issued < v.maxTokens

GrantBodies(r, v) ==
    IF Result(r) = "ok" /\ r.json
    THEN { TokenBody(shape, issued + 1) : shape \in v.tokenBodies }
    ELSE {EmptyBody}

StoreTokensKeepsRefresh(body) ==
    /\ access_token' = Get(body, "access_token", NoToken)
    /\ refresh_token' = refresh_token
    /\ issued' = IF body = EmptyBody THEN issued ELSE issued + 1

\* lines 75-76 and 98-99
StoreTokens(body) ==
    /\ access_token' = Get(body, "access_token", NoToken)
    /\ refresh_token' = Get(body, "refresh_token", NoToken)
    /\ issued' = IF body = EmptyBody THEN issued ELSE issued + 1

\* lines 75 and 98: response.get raises unless the body is an object
StoreRaises(body) == ~IsObject(body)

\* what a failing async_authenticate raises out of line 183, which is
\* outside the try block: the grant's own error, or the AttributeError of
\* line 75
LazyAuthError(r, body) ==
    IF Result(r) # "ok" THEN Result(r) ELSE "AttributeError"

RefreshErrorAlwaysAuth(r, body) == "AuthError"

\* what a failing async_refresh_tokens raises out of line 209, which is
\* inside the try block: the except clauses map it
RefreshError(r, body) ==
    IF Result(r) # "ok" THEN ExceptMap(Result(r)) ELSE ExceptMap("AttributeError")

\* async_authenticate called from line 183, then lines 184-205
AuthResp(t, v) ==
    /\ Quiescent
    /\ call[t].pc = "auth"
    /\ \E r \in v.responses :
         /\ GrantAllowed(r, v)
         /\ \E b \in GrantBodies(r, v) :
              IF Result(r) = "ok" /\ ~StoreRaises(Returned(r, b))
              THEN /\ StoreTokens(Returned(r, b))
                   /\ call' = [call EXCEPT ![t] =
                        [Transmit(@, Get(Returned(r, b), "access_token", NoToken))
                            EXCEPT !.pc = "req1"]]
              ELSE /\ call' = [call EXCEPT ![t] =
                        [Finish(@, LazyAuthError(r, Returned(r, b)), EmptyBody)
                            EXCEPT !.grantResp = r]]
                   /\ UNCHANGED <<access_token, refresh_token, issued>>
    /\ UNCHANGED <<modeVars, consumer_id, cycleVars, engineVars, cmdVars, flowVars, refreshRequested>>

CanRefreshAlways(rt) == TRUE

\* async_refresh_tokens line 81: `if not self._refresh_token` raises
CanRefresh(rt) == rt # NoToken

TakesRefreshPathOnRejection(r) == r.fault = "none" /\ r.status \in {401, 403}

\* line 207
TakesRefreshPath(r) == r.fault = "none" /\ r.status = HTTP_UNAUTHORIZED

\* lines 199-209 and, without the refresh path, lines 220-254
Req1Resp(t, v) ==
    /\ Quiescent
    /\ call[t].pc = "req1"
    /\ \E r \in v.responses : \E b \in BodyChoices(r, call[t].req, v) :
         call' = [call EXCEPT ![t] =
            IF TakesRefreshPath(r)
            THEN IF ~CanRefresh(refresh_token)
                 THEN [Finish(@, "AuthError", EmptyBody) EXCEPT !.resp = r]
                 ELSE [@ EXCEPT !.pc = "refresh", !.resp = r,
                                !.nRefresh = @ + 1, !.rtSent = refresh_token]
            ELSE [Finish(@, Result(r), Returned(r, b))
                     EXCEPT !.resp = r, !.body = b]]
    /\ UNCHANGED <<modeVars, gatewayVars, cycleVars, engineVars, cmdVars, flowVars, refreshRequested>>

RetryTokenStale(new, old) == old

\* line 211: the retry carries the token the refresh just stored
RetryToken(new, old) == new

\* async_refresh_tokens lines 90-100, then lines 211-218
RefreshResp(t, v) ==
    /\ Quiescent
    /\ call[t].pc = "refresh"
    /\ \E r \in v.responses :
         /\ GrantAllowed(r, v)
         /\ \E b \in GrantBodies(r, v) :
              IF Result(r) = "ok" /\ ~StoreRaises(Returned(r, b))
              THEN LET new == Get(Returned(r, b), "access_token", NoToken) IN
                   /\ StoreTokens(Returned(r, b))
                   /\ call' = [call EXCEPT ![t] =
                        [Transmit(@, RetryToken(new, @.sent[Len(@.sent)].tok))
                            EXCEPT !.pc = "req2", !.refreshOk = TRUE,
                                   !.newTok = new]]
              ELSE /\ call' = [call EXCEPT ![t] =
                        [Finish(@, RefreshError(r, Returned(r, b)), EmptyBody)
                            EXCEPT !.grantResp = r]]
                   /\ UNCHANGED <<access_token, refresh_token, issued>>
    /\ UNCHANGED <<modeVars, consumer_id, cycleVars, engineVars, cmdVars, flowVars, refreshRequested>>

\* lines 212-254
Req2Resp(t, v) ==
    /\ Quiescent
    /\ call[t].pc = "req2"
    /\ \E r \in v.responses : \E b \in BodyChoices(r, call[t].req, v) :
         call' = [call EXCEPT ![t] =
            [Finish(@, Result(r), Returned(r, b))
                EXCEPT !.resp = r, !.body = b]]
    /\ UNCHANGED <<modeVars, gatewayVars, cycleVars, engineVars, cmdVars, flowVars, refreshRequested>>

Init ==
    /\ access_token = NoToken
    /\ refresh_token = NoToken
    /\ consumer_id = NoToken
    /\ issued = 0
    /\ call = [t \in Tasks |-> NoCall]
    /\ cpc = "idle"
    /\ devices = <<>>
    /\ idx = 0
    /\ device_data = EmptyBody
    /\ fetched = {}
    /\ outcome = "none"
    /\ data = EmptyBody
    /\ published = FALSE
    /\ last_update_success = TRUE
    /\ lastRosterIds = {}
    /\ entities = {}
    /\ mpc = "idle"
    /\ cmdOutcome = "none"
    /\ refreshRequested = FALSE
    /\ fpc = "form"
    /\ flowErrors = "none"
    /\ mode_int = 0
    /\ mode_string = "none"

\* ------------------------------------------------- coordinator: one cycle
IdOf(device) == Get(device, "id", NoneId)

TruthyUnlessNone(id) == id # NoneId

\* `if device_id:`
Truthy(id) == id \notin {NoneId, ""}

\* the next roster position at or after i that has a device id
NextIdx(devs, i) ==
    IF \E j \in i..Len(devs) : Truthy(IdOf(devs[j]))
    THEN CHOOSE j \in i..Len(devs) :
            /\ Truthy(IdOf(devs[j]))
            /\ \A k \in i..(j - 1) : ~Truthy(IdOf(devs[k]))
    ELSE Len(devs) + 1

CycleErrorAllTransient(res) == "UpdateFailed"

CycleErrorAllAuth(res) == "ConfigEntryAuthFailed"

\* the except clauses of _async_update_data
CycleError(res) ==
    IF res = "AuthError" THEN "ConfigEntryAuthFailed"
    ELSE IF res \in Taxonomy THEN "UpdateFailed"
    ELSE res

\* the roster fetch raised: the cycle ends with the mapped condition
CycleFails(res) ==
    /\ cpc' = "end"
    /\ outcome' = CycleError(res)
    /\ call' = [call EXCEPT !["cycle"] = NoCall]
    /\ UNCHANGED <<modeVars, devices, idx, device_data, fetched>>

LoopDoneAfterFirst(devs, j) == j > Len(devs) \/ j > 1

\* the for loop is exhausted: line 85 returns device_data
LoopDone(devs, j) == j > Len(devs)

\* the for loop from position i on, with device_data dd: skip the entries
\* without id, then either fetch the next status or return device_data
Advance(devs, i, dd) ==
    LET j == NextIdx(devs, i) IN
    /\ devices' = devs
    /\ device_data' = dd
    /\ idx' = j
    /\ IF ~LoopDone(devs, j)
       THEN /\ cpc' = "status"
            /\ fetched' = fetched \cup {IdOf(devs[j])}
            /\ outcome' = outcome
            /\ call' = [call EXCEPT !["cycle"] = BeginCall(ReqStatus(IdOf(devs[j])))]
       ELSE /\ cpc' = "end"
            /\ fetched' = fetched
            /\ outcome' = "ok"
            /\ call' = [call EXCEPT !["cycle"] = NoCall]

StatusErrorCaughtUnlessAuth(res) == res # "AuthError"

\* line 73: `except Exception` catches whatever the status fetch raised
StatusErrorCaught(res) == TRUE

CarriedOverDeviceData(old) == old

\* line 58: device_data = {}
FreshDeviceData(old) == EmptyBody

\* what a status fetch gives the loop: a body, or an exception
StatusOutcomes ==
    { [ok |-> TRUE, body |-> b] : b \in StatusBodies \cup {EmptyBody} }
        \cup { [ok |-> FALSE, body |-> EmptyBody] }

\* lines 58-78 as a function of the roster and of each device's status
\* outcome st[id]: the device_data the loop returns, started at position i
\* with device_data dd
RECURSIVE LoopResult(_, _, _, _)
LoopResult(devs, i, dd, st) ==
    LET j == NextIdx(devs, i) IN
    IF LoopDone(devs, j) THEN dd
    ELSE LET device == devs[j]
             id == IdOf(device)
         IN LoopResult(devs, j + 1,
                       Put(dd, id, IF st[id].ok
                                   THEN Merge(device, st[id].body)
                                   ELSE device),
                       st)

\* _async_update_data is entered: async_get_devices lines 113-119
StartCycle ==
    /\ Quiescent
    /\ cpc = "idle"
    /\ devices' = <<>>
    /\ idx' = 0
    /\ device_data' = EmptyBody
    /\ fetched' = {}
    /\ outcome' = "running"
    /\ IF consumer_id = NoToken
       THEN /\ cpc' = "userinfo"
            /\ call' = [call EXCEPT !["cycle"] = BeginCall(ReqUserInfo)]
       ELSE /\ cpc' = "getall"
            /\ call' = [call EXCEPT !["cycle"] = BeginCall(ReqGetAll(consumer_id))]
    /\ UNCHANGED <<modeVars, gatewayVars, engineVars, lastRosterIds, cmdVars, flowVars>>

\* the update interval elapsed
TimerTick ==
    /\ StartCycle
    /\ UNCHANGED refreshRequested

\* a requested refresh is honoured
ManualRefresh ==
    /\ refreshRequested
    /\ StartCycle
    /\ refreshRequested' = FALSE

\* async_get_user_info lines 108-109, then async_get_devices lines 116-119
UserInfoReturn ==
    /\ cpc = "userinfo"
    /\ call["cycle"].pc = "done"
    /\ IF call["cycle"].result = "ok"
       THEN /\ consumer_id' = Get(call["cycle"].payload, "consumerId", NoToken)
            /\ cpc' = "getall"
            /\ call' = [call EXCEPT !["cycle"] = BeginCall(ReqGetAll(consumer_id'))]
            /\ UNCHANGED <<devices, idx, device_data, fetched, outcome, lastRosterIds>>
       ELSE /\ CycleFails(call["cycle"].result)
            /\ UNCHANGED <<consumer_id, lastRosterIds>>
    /\ UNCHANGED <<modeVars, access_token, refresh_token, issued, engineVars, cmdVars, flowVars,
                   refreshRequested>>

\* async_get_devices line 120, then _async_update_data lines 55-63
GetAllReturn ==
    /\ cpc = "getall"
    /\ call["cycle"].pc = "done"
    /\ IF call["cycle"].result = "ok"
       THEN LET roster == Get(call["cycle"].payload, "devices", <<>>) IN
            /\ lastRosterIds' =
                  { IdOf(roster[i]) : i \in 1..Len(roster) } \ {NoneId, ""}
            /\ Advance(roster, 1, FreshDeviceData(data))
       ELSE /\ CycleFails(call["cycle"].result)
            /\ UNCHANGED lastRosterIds
    /\ UNCHANGED <<modeVars, gatewayVars, engineVars, cmdVars, flowVars, refreshRequested>>

\* lines 63-78 for the device at idx, then the loop goes on
StatusReturn ==
    /\ cpc = "status"
    /\ call["cycle"].pc = "done"
    /\ LET device == devices[idx]
           res == call["cycle"].result
       IN IF res = "ok"
          THEN Advance(devices, idx + 1,
                       Put(device_data, IdOf(device),
                           Merge(device, call["cycle"].payload)))
          ELSE IF StatusErrorCaught(res)
          THEN Advance(devices, idx + 1, Put(device_data, IdOf(device), device))
          ELSE CycleFails(res)
    /\ UNCHANGED <<modeVars, gatewayVars, engineVars, cmdVars, flowVars, refreshRequested, lastRosterIds>>

\* the platform takes the cycle's result: the returned mapping replaces the
\* snapshot, a raised condition leaves it and clears the success flag
CycleEnd ==
    /\ cpc = "end"
    /\ cpc' = "idle"
    /\ IF outcome = "ok"
       THEN /\ data' = device_data
            /\ published' = TRUE
            /\ last_update_success' = TRUE
            /\ entities' = IF published THEN entities ELSE DOMAIN device_data
       ELSE /\ last_update_success' = FALSE
            /\ UNCHANGED <<data, published, entities>>
    /\ devices' = <<>>
    /\ idx' = 0
    /\ device_data' = EmptyBody
    /\ fetched' = {}
    /\ outcome' = "none"
    /\ UNCHANGED <<modeVars, gatewayVars, call, lastRosterIds, cmdVars, flowVars, refreshRequested>>

\* ------------------------------------------------------ the entity's write
EndpointMapWithAuto ==
    [heat |-> "/api/v1/device/heat",
     emergency_heat |-> "/api/v1/device/emergency/heat",
     cool |-> "/api/v1/device/cool",
     off |-> "/api/v1/device/off",
     auto |-> "/api/v1/device/auto"]

\* async_set_mode: endpoint_map
EndpointMap ==
    [heat |-> "/api/v1/device/heat",
     emergency_heat |-> "/api/v1/device/emergency/heat",
     cool |-> "/api/v1/device/cool",
     off |-> "/api/v1/device/off"]

NoTemp == 0

\* the modes a caller may pass: the four of endpoint_map and "auto", which
\* climate.py HVAC_TO_ZEN_MODE yields for HEAT_COOL
WriteModes == {"heat", "emergency_heat", "cool", "off", "auto"}

WriteTemps == {NoTemp, 21}

CommandBodyAnyMode(device_id, mode, temperature) ==
    IF temperature # NoTemp
    THEN [deviceid |-> device_id, setpoint |-> temperature]
    ELSE [deviceid |-> device_id]

\* async_set_mode lines 144-146
CommandBody(device_id, mode, temperature) ==
    IF mode # "off" /\ temperature # NoTemp
    THEN [deviceid |-> device_id, setpoint |-> temperature]
    ELSE [deviceid |-> device_id]

\* ZenWifiApiClient.async_set_mode, called by the climate entity
SetMode(mode, temperature) ==
    /\ Quiescent
    /\ mpc = "idle"
    /\ EntityDevice \in entities
    /\ IF mode \notin DOMAIN EndpointMap
       THEN /\ cmdOutcome' = "ValueError"
            /\ UNCHANGED <<mpc, call>>
       ELSE /\ mpc' = "setmode"
            /\ cmdOutcome' = "running"
            /\ call' = [call EXCEPT !["cmd"] =
                  BeginCall(ReqCommand(EndpointMap[mode],
                            CommandBody(EntityDevice, mode, temperature)))]
    /\ UNCHANGED <<modeVars, gatewayVars, cycleVars, engineVars, refreshRequested, flowVars>>

\* climate.py: the modes Home Assistant may hand to async_set_hvac_mode
HvacModes == {"off", "heat", "cool", "heat_cool", "auto", "dry", "fan_only"}

\* climate.py: HVAC_TO_ZEN_MODE
HVAC_TO_ZEN_MODE ==
    [off |-> "off", heat |-> "heat", cool |-> "cool", heat_cool |-> "auto"]

\* climate.py: device_data, the entity's record in the snapshot
DeviceData(id) == Get(data, id, EmptyBody)

\* async_set_hvac_mode lines 196-201: the setpoint sent with the mode
SetpointFor(hvac_mode) ==
    IF hvac_mode = "heat" THEN Get(DeviceData(EntityDevice), "heatingSetpoint", NoTemp)
    ELSE IF hvac_mode = "cool" THEN Get(DeviceData(EntityDevice), "coolingSetpoint", NoTemp)
    ELSE NoTemp

\* ZenWifiClimate.async_set_hvac_mode up to its call of async_set_mode
SetHvacMode(hvac_mode) ==
    IF hvac_mode \notin DOMAIN HVAC_TO_ZEN_MODE
    THEN /\ Quiescent
         /\ mpc = "idle"
         /\ EntityDevice \in entities
         /\ cmdOutcome' = "ValueError"
         /\ UNCHANGED <<modeVars, mpc, call, gatewayVars, cycleVars, engineVars,
                        refreshRequested, flowVars>>
    ELSE SetMode(HVAC_TO_ZEN_MODE[hvac_mode], SetpointFor(hvac_mode))

ClimateAvailableOnlineOnly(id) == Get(DeviceData(id), "isOnline", FALSE)

\* ZenWifiClimate.available
ClimateAvailable(id) ==
    last_update_success /\ Get(DeviceData(id), "isOnline", FALSE)

\* sensor.py: the keys of SENSOR_DESCRIPTIONS
SensorKeys == {"currentTemperature", "heatingSetpoint", "coolingSetpoint"}

\* ZenWifiSensor.available
SensorAvailable(id, key) ==
    /\ last_update_success
    /\ Get(DeviceData(id), "isOnline", FALSE)
    /\ key \in DOMAIN DeviceData(id)

RequestsRefreshAlways(res) == TRUE

\* climate.py 185, 207: reached only when async_set_mode returned
RequestsRefresh(res) == res = "ok"

\* the write returns or raises; on success the entity requests a refresh
CmdReturn ==
    /\ mpc = "setmode"
    /\ call["cmd"].pc = "done"
    /\ mpc' = "idle"
    /\ cmdOutcome' = call["cmd"].result
    /\ refreshRequested' = (refreshRequested \/ RequestsRefresh(call["cmd"].result))
    /\ call' = [call EXCEPT !["cmd"] = NoCall]
    /\ UNCHANGED <<modeVars, gatewayVars, cycleVars, engineVars, flowVars>>

\* ------------------------------------------------------- the config flow
\* the vendor as the config flow's client meets it
VendorFlow ==
    [maxTokens |-> MaxTokens, tokenBodies |-> {"pair", "none", "array"},
     responses |-> Responses, userInfo |-> {[consumerId |-> 7]},
     entries |-> {Entry(EntityDevice, RealDate)}, maxRoster |-> MaxRosterShared,
     statusBodies |-> StatusBodies]

\* async_authenticate called by its user (config_flow.py 90): the password
\* grant's response is stored and returned, or its error raised
GrantResp(t, v) ==
    /\ Quiescent
    /\ call[t].pc = "grant"
    /\ \E r \in v.responses :
         /\ GrantAllowed(r, v)
         /\ \E b \in GrantBodies(r, v) :
              IF Result(r) = "ok" /\ ~StoreRaises(Returned(r, b))
              THEN /\ StoreTokens(Returned(r, b))
                   /\ call' = [call EXCEPT ![t] = Finish(@, "ok", Returned(r, b))]
              ELSE /\ call' = [call EXCEPT ![t] =
                        [Finish(@, LazyAuthError(r, Returned(r, b)), EmptyBody)
                            EXCEPT !.grantResp = r]]
                   /\ UNCHANGED <<access_token, refresh_token, issued>>
    /\ UNCHANGED <<modeVars, consumer_id, cycleVars, engineVars, cmdVars, flowVars,
                   refreshRequested>>

FlowErrorGeneric(res) == "unknown"

\* async_step_user: the except clauses, most specific first
FlowError(res) ==
    IF res = "AuthError" THEN "auth"
    ELSE IF res = "CommError" THEN "connection"
    ELSE "unknown"

\* _test_credentials raised: the form again with the error, or, for an
\* exception no clause names, the exception leaves async_step_user
FlowFails(res) ==
    /\ call' = [call EXCEPT !["flow"] = NoCall]
    /\ IF res \in Taxonomy
       THEN /\ fpc' = "form"
            /\ flowErrors' = FlowError(res)
       ELSE /\ fpc' = "raised"
            /\ flowErrors' = "none"

\* async_step_user with user_input: _test_credentials makes a client of its
\* own and calls async_authenticate.  In the flow's specification the
\* gateway variables are that client's.
FlowSubmit ==
    /\ Quiescent
    /\ fpc = "form"
    /\ access_token' = NoToken
    /\ refresh_token' = NoToken
    /\ consumer_id' = NoToken
    /\ call' = [call EXCEPT !["flow"] = [NoCall EXCEPT !.pc = "grant", !.nAuth = 1]]
    /\ fpc' = "authenticate"
    /\ flowErrors' = "none"
    /\ UNCHANGED <<modeVars, issued, cycleVars, engineVars, cmdVars, refreshRequested>>

\* config_flow.py 90-91: async_authenticate returned or raised
FlowAuthReturn ==
    /\ fpc = "authenticate"
    /\ call["flow"].pc = "done"
    /\ IF call["flow"].result = "ok"
       THEN /\ fpc' = "userinfo"
            /\ call' = [call EXCEPT !["flow"] = BeginCall(ReqUserInfo)]
            /\ UNCHANGED flowErrors
       ELSE FlowFails(call["flow"].result)
    /\ UNCHANGED <<modeVars, gatewayVars, cycleVars, engineVars, cmdVars, refreshRequested>>

\* config_flow.py 91 and 50-58: async_get_user_info returned or raised; on
\* success the entry is created unless the username is already configured
FlowUserInfoReturn ==
    /\ fpc = "userinfo"
    /\ call["flow"].pc = "done"
    /\ IF call["flow"].result = "ok"
       THEN /\ consumer_id' = Get(call["flow"].payload, "consumerId", NoToken)
            /\ call' = [call EXCEPT !["flow"] = NoCall]
            /\ fpc' \in {"entry", "abort"}
            /\ UNCHANGED flowErrors
       ELSE /\ FlowFails(call["flow"].result)
            /\ UNCHANGED consumer_id
    /\ UNCHANGED <<modeVars, access_token, refresh_token, issued, cycleVars, engineVars,
                   cmdVars, refreshRequested>>

NextFlow ==
    \/ FlowSubmit
    \/ GrantResp("flow", VendorFlow)
    \/ FlowAuthReturn
    \/ FlowUserInfoReturn
    \/ AuthResp("flow", VendorFlow)
    \/ Req1Resp("flow", VendorFlow)
    \/ RefreshResp("flow", VendorFlow)
    \/ Req2Resp("flow", VendorFlow)

\* the config flow alone, each submission with a client of its own
SpecFlow == Init /\ [][NextFlow]_vars

Next ==
    \/ TimerTick
    \/ ManualRefresh
    \/ UserInfoReturn
    \/ GetAllReturn
    \/ StatusReturn
    \/ CycleEnd
    \/ \E t \in Tasks : AuthResp(t, VendorShared)
    \/ \E t \in Tasks : Req1Resp(t, VendorShared)
    \/ \E t \in Tasks : RefreshResp(t, VendorShared)
    \/ \E t \in Tasks : Req2Resp(t, VendorShared)
    \/ SetMode("heat", 21)
    \/ CmdReturn

\* the engine and the entity's writes sharing one gateway
Spec == Init /\ [][Next]_vars

NextEngine ==
    \/ TimerTick
    \/ UserInfoReturn
    \/ GetAllReturn
    \/ StatusReturn
    \/ CycleEnd
    \/ AuthResp("cycle", VendorEngine)
    \/ Req1Resp("cycle", VendorEngine)
    \/ RefreshResp("cycle", VendorEngine)
    \/ Req2Resp("cycle", VendorEngine)

\* the engine alone: no entity writes, longer rosters
SpecEngine == Init /\ [][NextEngine]_vars

NextWrite ==
    \/ TimerTick
    \/ ManualRefresh
    \/ UserInfoReturn
    \/ GetAllReturn
    \/ StatusReturn
    \/ CycleEnd
    \/ AuthResp("cycle", VendorQuiet)
    \/ Req1Resp("cycle", VendorQuiet)
    \/ AuthResp("cmd", VendorWrite)
    \/ Req1Resp("cmd", VendorWrite)
    \/ RefreshResp("cmd", VendorWrite)
    \/ Req2Resp("cmd", VendorWrite)
    \/ \E mode \in WriteModes, temperature \in WriteTemps :
          SetMode(mode, temperature)
    \/ \E hvac_mode \in HvacModes : SetHvacMode(hvac_mode)
    \/ CmdReturn

\* the engine and entity writes of every mode, with or without a temperature
SpecWrite == Init /\ [][NextWrite]_vars

\* a vendor whose devices may be offline and whose answers may fail
VendorAvail ==
    [maxTokens |-> MaxTokens, tokenBodies |-> {"pair"},
     responses |-> { Resp(200, TRUE, "none"), Resp(500, FALSE, "none") },
     userInfo |-> {[consumerId |-> 7]},
     entries |-> {Entry(EntityDevice, RealDate)}, maxRoster |-> MaxRosterShared,
     statusBodies |-> StatusBodies \cup {OfflineBody}]

NextAvail ==
    \/ TimerTick
    \/ UserInfoReturn
    \/ GetAllReturn
    \/ StatusReturn
    \/ CycleEnd
    \/ AuthResp("cycle", VendorAvail)
    \/ Req1Resp("cycle", VendorAvail)

\* the engine alone, with devices that go offline and come back
SpecAvail == Init /\ [][NextAvail]_vars

\* ------------------------------------------------------ get_mode_string
\* the mode codes a caller may pass
Codes == (0 - 3)..MaxCode

\* get_mode_string: mode_map
ModeMap ==
    0 :> "heat" @@ 1 :> "heat" @@ 2 :> "cool" @@ 3 :> "off" @@ 4 :> "auto" @@
    5 :> "eco" @@ 6 :> "emergency_heat" @@ 7 :> "zen"

GetModeStringNoAlias(code) ==
    IF code \in DOMAIN ModeMap \ {1} THEN ModeMap[code] ELSE "unknown"

\* mode_map.get(mode_int, "unknown")
GetModeString(code) ==
    IF code \in DOMAIN ModeMap THEN ModeMap[code] ELSE "unknown"

\* a caller holding the client converts a mode code
GetModeStringCall ==
    /\ \E code \in Codes :
          /\ mode_int' = code
          /\ mode_string' = GetModeString(code)
    /\ UNCHANGED <<gatewayVars, call, cycleVars, engineVars, cmdVars, flowVars,
                   refreshRequested>>

NextMode ==
    \/ TimerTick
    \/ UserInfoReturn
    \/ GetAllReturn
    \/ StatusReturn
    \/ CycleEnd
    \/ AuthResp("cycle", VendorAvail)
    \/ Req1Resp("cycle", VendorAvail)
    \/ GetModeStringCall

\* mode codes converted while the engine runs on the same client
SpecMode == Init /\ [][NextMode]_vars

\* ------------------------------------------------------------------ claims
IsUnauthorized(r) == r.fault = "none" /\ r.status = 401

\* C1: when the first response of an authenticated call is 401 and the token
\* refresh succeeds, the same request is sent exactly once more, carrying the
\* access token that refresh returned, and when the retry's response is
\* successful the call returns successfully instead of the 401.
C1_RetryCarriesNewToken ==
    \A t \in Tasks :
        LET c == call[t] IN
        c.refreshOk =>
            /\ c.pc \in {"req2", "done"}
            /\ Len(c.sent) = 2
            /\ c.sent[2].req = c.sent[1].req
            /\ c.sent[2].tok = c.newTok
            /\ (c.pc = "done" /\ c.resp.fault = "none" /\ c.resp.status = 200
                    => c.result = "ok")

C1_Witness ==
    \E t \in Tasks :
        /\ call[t].pc = "done"
        /\ call[t].refreshOk
        /\ call[t].result = "ok"
        /\ call[t].sent[2].tok # call[t].sent[1].tok
        /\ call[t].sent[2].tok # NoToken

\* C2: when the retried request is answered 401 again the call fails with
\* the authentication error and is not retried; one call sends its request
\* at most twice and refreshes at most once.
C2_SecondUnauthorizedFails ==
    \A t \in Tasks :
        LET c == call[t] IN
        /\ Len(c.sent) <= 2
        /\ c.nRefresh <= 1
        /\ (c.pc = "done" /\ c.refreshOk /\ IsUnauthorized(c.resp)
                => c.result = "AuthError" /\ Len(c.sent) = 2)

C2_Witness ==
    \E t \in Tasks :
        /\ call[t].pc = "done"
        /\ call[t].refreshOk
        /\ IsUnauthorized(call[t].resp)
        /\ call[t].result = "AuthError"

\* C3: refresh attempts of calls sharing the gateway are serialized: no two
\* refresh grants are in flight at once, so the same refresh token is never
\* submitted to the vendor by two callers.
C3_RefreshSerialized ==
    \A t, u \in Tasks :
        (t # u /\ call[t].pc = "refresh" /\ call[u].pc = "refresh")
            => call[t].rtSent # call[u].rtSent

RosterIds(roster) ==
    { Get(roster[i], "id", NoneId) : i \in 1..Len(roster) } \ {NoneId, ""}

HoldsMerged(record, entry, status) ==
    /\ DOMAIN record = DOMAIN entry \cup DOMAIN status
    /\ \A k \in DOMAIN status : record[k] = status[k]
    /\ \A k \in DOMAIN entry \ DOMAIN status : record[k] = entry[k]

\* C6: a status fetch that fails, with whatever error, never fails the
\* cycle: the failing device's record is exactly its roster entry, a
\* succeeding device's record is its roster entry overlaid with its status,
\* the other records are untouched, and the cycle ends successfully with
\* every roster device in the mapping it returns.
C6_StatusFailuresIsolated ==
    /\ [](cpc = "end" /\ outcome = "ok" => DOMAIN device_data = RosterIds(devices))
    /\ [][cpc = "status" =>
            \/ cpc' = "status" /\ outcome' = "running"
            \/ cpc' = "end" /\ outcome' = "ok"]_vars
    /\ [][(cpc = "status" /\ call["cycle"].pc = "done") =>
            LET entry == devices[idx]
                id == entry.id
                c == call["cycle"]
            IN /\ id \in DOMAIN device_data'
               /\ IF c.result = "ok"
                  THEN HoldsMerged(device_data'[id], entry, c.payload)
                  ELSE device_data'[id] = entry
               /\ \A k \in DOMAIN device_data \ {id} :
                     k \in DOMAIN device_data' /\ device_data'[k] = device_data[k]]_vars

C6_Witness ==
    /\ cpc = "status"
    /\ call["cycle"].pc = "done"
    /\ call["cycle"].result = "AuthError"
    /\ idx = 2
    /\ \E id \in DOMAIN device_data :
          /\ id # devices[idx].id
          /\ "isOnline" \in DOMAIN device_data[id]

Unprovisioned(entry) == Get(entry, "provisioned", "") \in {"", SentinelDate}

\* C7: a successful cycle publishes no unprovisioned device: of a roster of
\* N devices (distinct ids) of which K carry an empty or sentinel
\* provisioning timestamp, the returned mapping has exactly N-K entries.
C7_UnprovisionedFiltered ==
    /\ \A id \in DOMAIN data : ~Unprovisioned(data[id])
    /\ (/\ cpc = "end"
        /\ outcome = "ok"
        /\ Cardinality(RosterIds(devices)) = Len(devices))
            => Cardinality(DOMAIN device_data) =
                 Len(devices)
                   - Cardinality({ i \in 1..Len(devices) : Unprovisioned(devices[i]) })

RosterFetchReturned(res) ==
    /\ cpc \in {"userinfo", "getall"}
    /\ call["cycle"].pc = "done"
    /\ call["cycle"].result = res

\* C8: when the roster fetch fails with the authentication error the cycle
\* ends with ConfigEntryAuthFailed, no status fetch was issued in it, and
\* the published snapshot stays as it was.
C8_AuthFailureAborts ==
    /\ [](cpc = "end" /\ outcome = "ConfigEntryAuthFailed" => fetched = {})
    /\ [][RosterFetchReturned("AuthError") =>
            /\ cpc' = "end"
            /\ outcome' = "ConfigEntryAuthFailed"
            /\ fetched' = {}
            /\ data' = data]_vars
    /\ [][(cpc # "end" \/ outcome # "ok") => data' = data /\ published' = published]_vars

C8_Witness ==
    /\ cpc = "end"
    /\ outcome = "ConfigEntryAuthFailed"
    /\ published
    /\ DOMAIN data # {}

C10_NoStaleCarryOver ==
    (cpc = "idle" /\ published) => DOMAIN data = lastRosterIds

C10_Witness ==
    /\ cpc = "end"
    /\ outcome = "ok"
    /\ \E id \in DOMAIN data : id \notin DOMAIN device_data
    /\ \E id \in DOMAIN device_data : "isOnline" \notin DOMAIN device_data[id]

AcceptedModes == {"heat", "emergency_heat", "cool", "off"}

\* C11: async_set_mode with a mode outside {heat, emergency_heat, cool, off}
\* fails with ValueError before any network activity: the step sends no
\* request, starts no authentication or refresh, and leaves the tokens and
\* every call of the gateway as they were; while the write stands failed
\* that way its caller has no call in flight.
C11_InvalidModeSendsNothing ==
    /\ [](cmdOutcome = "ValueError" => mpc = "idle" /\ call["cmd"] = NoCall)
    /\ [][\A mode \in WriteModes \ AcceptedModes, temperature \in WriteTemps :
            SetMode(mode, temperature) =>
                /\ cmdOutcome' = "ValueError"
                /\ mpc' = "idle"
                /\ call' = call
                /\ access_token' = access_token
                /\ refresh_token' = refresh_token
                /\ issued' = issued]_vars

C11_Witness ==
    /\ cmdOutcome = "ValueError"
    /\ access_token # NoToken
    /\ refresh_token # NoToken
    /\ issued = 1
    /\ \A t \in Tasks : call[t] = NoCall

\* C12: the body async_set_mode sends carries the device id, and carries a
\* setpoint exactly when the mode is not off and a temperature was supplied,
\* the setpoint being that temperature; a request to the off endpoint never
\* carries a setpoint.
C12_SetpointOnlyWhenNotOff ==
    /\ [](call["cmd"].req.kind = "command" =>
            LET req == call["cmd"].req IN
            /\ "deviceid" \in DOMAIN req.body
            /\ req.body.deviceid = EntityDevice
            /\ (req.arg = "/api/v1/device/off" => "setpoint" \notin DOMAIN req.body))
    /\ [][\A mode \in AcceptedModes, temperature \in WriteTemps :
            SetMode(mode, temperature) =>
                LET body == call'["cmd"].req.body IN
                /\ call'["cmd"].req.kind = "command"
                /\ "deviceid" \in DOMAIN body
                /\ ("setpoint" \in DOMAIN body
                        <=> (mode # "off" /\ temperature # NoTemp))
                /\ ("setpoint" \in DOMAIN body => body.setpoint = temperature)]_vars

C12_Witness ==
    LET c == call["cmd"] IN
    /\ c.pc = "done"
    /\ c.result = "ok"
    /\ c.req.arg = "/api/v1/device/heat"
    /\ c.sent[1].req.body = [deviceid |-> EntityDevice, setpoint |-> 21]

\* C13: every request sent with bearer authentication carries a present
\* access token, whatever the token endpoint returned.
C13_BearerTokenPresent ==
    \A t \in Tasks :
        \A i \in 1..Len(call[t].sent) : call[t].sent[i].tok # NoToken

\* C14: lazy authentication is memoized: once the vendor has issued a token
\* pair to the gateway, no operation sends the password grant again; every
\* later access token comes from the refresh grant.
C14_PasswordSentOnce ==
    \A t \in Tasks : call[t].pc = "auth" => issued = 0

\* C15: the account id is resolved once and cached: an account-info response
\* carrying an id leaves that id in the gateway, an id once held never
\* changes, an account-info request is in flight only while no id is held,
\* every roster request carries the id held, and once the id is held no
\* roster fetch sends the password grant.
C15_AccountIdCached ==
    /\ [](call["cycle"].req.kind = "userinfo" => consumer_id = NoToken)
    /\ [](call["cycle"].req.kind = "getall" =>
            call["cycle"].req.arg = ToString(consumer_id))
    /\ [][consumer_id # NoToken => consumer_id' = consumer_id]_vars
    /\ [][(/\ cpc = "userinfo"
           /\ call["cycle"].pc = "done"
           /\ call["cycle"].result = "ok"
           /\ "consumerId" \in DOMAIN call["cycle"].payload)
              => consumer_id' = call["cycle"].payload.consumerId]_vars
    /\ [](consumer_id # NoToken => call["cycle"].pc # "auth")

\* C16: async_refresh_tokens with no refresh token held raises the
\* authentication error without sending a request: a refresh grant in
\* flight always carries a refresh token, and a call answered 401 while no
\* refresh token is held ends at once with the authentication error, its
\* request sent once, no refresh counted and the tokens untouched.
C16_NoRefreshWithoutToken ==
    /\ [](\A t \in Tasks :
            LET c == call[t] IN
            /\ (c.pc = "refresh" \/ c.nRefresh > 0 => c.rtSent # NoToken)
            /\ (c.pc = "done" /\ IsUnauthorized(c.resp) /\ c.nRefresh = 0
                   => c.result = "AuthError" /\ Len(c.sent) = 1))
    /\ [][\A t \in Tasks :
            (/\ call[t].pc = "req1"
             /\ refresh_token = NoToken
             /\ call'[t].pc # "req1"
             /\ IsUnauthorized(call'[t].resp))
               => /\ call'[t].pc = "done"
                  /\ call'[t].result = "AuthError"
                  /\ call'[t].sent = call[t].sent
                  /\ call'[t].nRefresh = 0
                  /\ access_token' = access_token
                  /\ refresh_token' = NoToken]_vars

C16_Witness ==
    \E t \in Tasks :
        /\ call[t].pc = "done"
        /\ IsUnauthorized(call[t].resp)
        /\ call[t].nRefresh = 0
        /\ call[t].result = "AuthError"
        /\ access_token # NoToken
        /\ refresh_token = NoToken

\* C17: publication is atomic: the published mapping changes only in the
\* step that ends a successful cycle, and then to the whole mapping the
\* cycle built, which holds every device of that cycle's roster; while a
\* cycle is under way, suspended at a fetch or not, the published mapping
\* is the one published before it.
C17_AtomicPublication ==
    /\ [](cpc = "end" /\ outcome = "ok" => DOMAIN device_data = RosterIds(devices))
    /\ [][(data' # data \/ published' # published) =>
            /\ cpc = "end"
            /\ outcome = "ok"
            /\ cpc' = "idle"
            /\ published'
            /\ data' = device_data]_vars
    /\ [][(cpc \in {"userinfo", "getall", "status"}) => data' = data]_vars

C17_Witness ==
    /\ cpc = "status"
    /\ published
    /\ Len(devices) = 2
    /\ idx = 2
    /\ DOMAIN device_data # RosterIds(devices)
    /\ DOMAIN device_data # {}
    /\ DOMAIN data # DOMAIN device_data
    /\ DOMAIN data # {}

\* C18: the entity requests a refresh only after async_set_mode has
\* returned: when the write's call ends, its result is what the caller
\* gets; a refresh is requested if the call succeeded and is not requested
\* if it raised; a write rejected for its mode requests none; and no other
\* step requests a refresh.
C18_RefreshOnlyAfterSuccess ==
    /\ [][(mpc = "setmode" /\ mpc' = "idle") =>
            /\ call["cmd"].pc = "done"
            /\ cmdOutcome' = call["cmd"].result
            /\ IF call["cmd"].result = "ok"
               THEN refreshRequested'
               ELSE refreshRequested' = refreshRequested]_vars
    /\ [][(~refreshRequested /\ refreshRequested') =>
            /\ mpc = "setmode"
            /\ call["cmd"].pc = "done"
            /\ call["cmd"].result = "ok"]_vars
    /\ [][(cmdOutcome' = "ValueError" /\ cmdOutcome # "ValueError") =>
            refreshRequested' = refreshRequested]_vars

C18_Witness ==
    /\ mpc = "idle"
    /\ cmdOutcome = "AuthError"
    /\ ~refreshRequested
    /\ call["cmd"] = NoCall
    /\ cpc = "idle"

\* C19: the config flow creates an entry only after async_authenticate and
\* then async_get_user_info have both returned; when either raises the
\* authentication error the form is shown again with error "auth", the
\* communication error gives "connection", the generic API error gives
\* "unknown"; whenever an error is shown the flow is at the form and no entry
\* was created.
C19_EntryOnlyAfterBothSucceed ==
    /\ [](flowErrors # "none" => fpc = "form" /\ call["flow"] = NoCall)
    /\ [][(fpc' = "userinfo" /\ fpc # "userinfo") =>
            /\ fpc = "authenticate"
            /\ call["flow"].pc = "done"
            /\ call["flow"].result = "ok"]_vars
    /\ [][(fpc' = "entry" /\ fpc # "entry") =>
            /\ fpc = "userinfo"
            /\ call["flow"].pc = "done"
            /\ call["flow"].result = "ok"]_vars
    /\ [][(fpc \in {"authenticate", "userinfo"} /\ call["flow"].pc = "done") =>
            LET res == call["flow"].result IN
            /\ (res = "AuthError" => fpc' = "form" /\ flowErrors' = "auth")
            /\ (res = "CommError" => fpc' = "form" /\ flowErrors' = "connection")
            /\ (res = "ApiError" => fpc' = "form" /\ flowErrors' = "unknown")
            /\ (res # "ok" => fpc' \notin {"entry", "userinfo"})]_vars

C19_Witness ==
    /\ fpc = "form"
    /\ flowErrors = "connection"
    /\ access_token # NoToken
    /\ refresh_token # NoToken
    /\ consumer_id = NoToken

\* C20: the outcome of an authenticated gateway request is typed: it returns,
\* or raises one of the gateway's three error classes and nothing else; a
\* timeout or transport fault gives the communication error, a 403 or a
\* final 401 the authentication error, an undecodable body the generic API
\* error, and an error raised by the nested refresh is the call's error.
C20_FailuresTyped ==
    \A t \in Tasks :
        LET c == call[t] IN
        (c.pc = "done" /\ c.req.kind # "none") =>
            /\ c.result \in Taxonomy \cup {"ok"}
            /\ (c.resp.fault \in {"timeout", "transport"} => c.result = "CommError")
            /\ (c.resp.fault = "none" /\ c.resp.status = 403 => c.result = "AuthError")
            /\ (IsUnauthorized(c.resp) /\ (c.nRefresh = 0 \/ c.refreshOk)
                    => c.result = "AuthError")
            /\ (c.resp.fault = "decode" => c.result = "ApiError")

IsRejection(r) == r.fault = "none" /\ r.status \in {401, 403}

\* C21: token lifecycle: an authenticate that returns stores the access and
\* refresh tokens of the body it returns; an authenticate answered 401 or 403
\* raises the authentication error with no refresh attempted, nothing else
\* sent and the tokens as they were, as does any failed authenticate; a
\* refresh that succeeds replaces both tokens with the pair the vendor just
\* issued, and the retry carries the new access token.
C21_TokenLifecycle ==
    /\ [][\A t \in Tasks :
            (call[t].pc = "grant" /\ call'[t].pc = "done") =>
                LET c == call'[t] IN
                IF c.result = "ok"
                THEN /\ access_token' = Get(c.payload, "access_token", NoToken)
                     /\ refresh_token' = Get(c.payload, "refresh_token", NoToken)
                ELSE /\ access_token' = access_token
                     /\ refresh_token' = refresh_token
                     /\ c.nRefresh = 0
                     /\ c.sent = <<>>]_vars
    /\ [][\A t \in Tasks :
            (/\ call[t].pc \in {"grant", "auth"}
             /\ call'[t].pc = "done"
             /\ IsRejection(call'[t].grantResp)) =>
                /\ call'[t].result = "AuthError"
                /\ call'[t].nRefresh = 0
                /\ call'[t].sent = <<>>
                /\ access_token' = access_token
                /\ refresh_token' = refresh_token]_vars
    /\ [][\A t \in Tasks :
            (call[t].pc = "refresh" /\ call'[t].pc = "req2") =>
                /\ access_token' = call'[t].newTok
                /\ call'[t].sent[2].tok = access_token'
                /\ refresh_token' # call[t].rtSent
                /\ (issued' > issued =>
                        /\ access_token' = issued'
                        /\ refresh_token' = issued'
                        /\ access_token' # access_token)]_vars

C21_Witness ==
    /\ call["flow"].pc = "req2"
    /\ call["flow"].refreshOk
    /\ issued > 1
    /\ access_token = issued
    /\ refresh_token = issued

\* C22: the roster request is issued only for a resolved account: while the
\* roster request is in flight an account id is held, and the consumerId
\* the request carries is that id, never an absent value.
C22_RosterForResolvedAccount ==
    /\ cpc = "getall" => consumer_id # NoToken
    /\ call["cycle"].req.kind = "getall" =>
          /\ call["cycle"].req.arg # ToString(NoToken)
          /\ call["cycle"].req.arg = ToString(consumer_id)

\* C23: when a device's status fetch succeeds the record stored for it has
\* every key of its roster entry and every key of the status, with the
\* status value wherever both have the key; so does every record of the
\* published snapshot that carries status fields.
C23_MergeStatusWins ==
    /\ [](\A id \in DOMAIN data :
            "isOnline" \in DOMAIN data[id] =>
                /\ DOMAIN data[id] = {"id", "provisioned", "name", "isOnline",
                                      "currentTemperature"}
                /\ data[id].id = id
                /\ data[id].name = "status")
    /\ [][(/\ cpc = "status"
           /\ call["cycle"].pc = "done"
           /\ call["cycle"].result = "ok") =>
            LET entry == devices[idx]
                status == call["cycle"].payload
                record == device_data'[entry.id]
            IN /\ DOMAIN entry \subseteq DOMAIN record
               /\ DOMAIN status \subseteq DOMAIN record
               /\ \A k \in DOMAIN status : record[k] = status[k]
               /\ \A k \in DOMAIN entry \ DOMAIN status : record[k] = entry[k]]_vars

C23_Witness ==
    /\ published
    /\ \E id \in DOMAIN data :
          /\ "isOnline" \in DOMAIN data[id]
          /\ data[id].name = "status"
          /\ data[id].provisioned = RealDate

Perms(n) ==
    { p \in [1..n -> 1..n] : \A i, j \in 1..n : i # j => p[i] # p[j] }

Permuted(devs, p) == [i \in 1..Len(devs) |-> devs[p[i]]]

DistinctIds(devs) ==
    \A i, j \in 1..Len(devs) :
        (i # j /\ Truthy(IdOf(devs[i]))) => IdOf(devs[i]) # IdOf(devs[j])

\* the loop has returned device_data for the roster in `devices`
LoopReturned == cpc = "end" /\ outcome = "ok"

\* the device_data the loop returned is the loop's result for the roster
\* under some per-device status outcomes, and under any such outcomes every
\* permutation of the roster gives the same device_data
SameForEveryOrder(devs, dd) ==
    LET sts == [RosterIds(devs) -> StatusOutcomes] IN
    /\ \E st \in sts : LoopResult(devs, 1, EmptyBody, st) = dd
    /\ \A st \in sts :
          LoopResult(devs, 1, EmptyBody, st) = dd =>
              \A p \in Perms(Len(devs)) :
                  LoopResult(Permuted(devs, p), 1, EmptyBody, st) = dd

\* C24 as stated: the snapshot a cycle produces is the same for every
\* permutation of the roster with the same per-device status outcomes,
\* rosters in which two entries share a device id included.
C24_OrderNotObservable ==
    LoopReturned => SameForEveryOrder(devices, device_data)

\* C24 amended: for a roster in which no two entries share a device id, the
\* snapshot a cycle produces is the same for every permutation of the roster
\* with the same per-device status outcomes.
C24_OrderNotObservableDistinctIds ==
    (LoopReturned /\ DistinctIds(devices)) =>
        SameForEveryOrder(devices, device_data)

C24_Witness ==
    /\ LoopReturned
    /\ Len(devices) = 2
    /\ DistinctIds(devices)
    /\ DOMAIN device_data = {"A", "B"}
    /\ "isOnline" \in DOMAIN device_data["B"]
    /\ "isOnline" \notin DOMAIN device_data["A"]

\* the call of task t has ended on a 2xx response that was read without a
\* fault
EndedOnSuccess(t) ==
    /\ call[t].pc = "done"
    /\ call[t].resp.fault = "none"
    /\ call[t].resp.status = 200

\* C25: a call that ends on a 2xx response whose content type is not JSON
\* returns {} and raises nothing, whatever the request; one that ends on a
\* 2xx JSON response returns the parsed body.
C25_NonJsonSuccessIsEmpty ==
    \A t \in Tasks :
        EndedOnSuccess(t) =>
            /\ call[t].result = "ok"
            /\ call[t].payload =
                  IF call[t].resp.json THEN call[t].body ELSE EmptyBody

C25_Witness ==
    /\ EndedOnSuccess("cmd")
    /\ ~call["cmd"].resp.json
    /\ call["cmd"].body = TextBody
    /\ call["cmd"].payload = EmptyBody
    /\ call["cmd"].result = "ok"

\* the vendor rejected the request (a 4xx or 5xx status) or it failed in
\* transport
RejectedOrLost(r) ==
    \/ r.fault \in {"timeout", "transport"}
    \/ r.fault = "none" /\ r.status >= 400

\* the refresh of task t's call has just failed on response grantResp
RefreshFailed(t) ==
    /\ call[t].pc = "done"
    /\ call[t].nRefresh = 1
    /\ call[t].grantResp # NoResp
    /\ RejectedOrLost(call[t].grantResp)

\* C26: when the refresh that a 401 triggered is rejected by the vendor or
\* fails in transport, the step leaves access token, refresh token and
\* account id as they were, no retry is sent, and the call fails with the
\* error the refresh raised.
C26_FailedRefreshNoEffect ==
    [][\A t \in Tasks :
         (call[t].pc = "refresh" /\ RefreshFailed(t)') =>
            /\ access_token' = access_token
            /\ refresh_token' = refresh_token
            /\ consumer_id' = consumer_id
            /\ call[t]'.sent = call[t].sent
            /\ Len(call[t]'.sent) = 1
            /\ call[t]'.result = Result(call[t]'.grantResp)
            /\ call[t]'.result \in {"AuthError", "CommError"}]_vars

C26_Witness ==
    /\ RefreshFailed("cmd")
    /\ call["cmd"].grantResp = Resp(500, FALSE, "none")
    /\ call["cmd"].result = "CommError"
    /\ Len(call["cmd"].sent) = 1
    /\ access_token = call["cmd"].sent[1].tok
    /\ refresh_token = call["cmd"].rtSent
    /\ refresh_token # NoToken

\* C27: only a 401 sends a call down the refresh path; a 403 answering the
\* first attempt ends the call at once with the authentication error: no
\* refresh, no retry, access token, refresh token and account id untouched.
C27_ForbiddenFailsAtOnce ==
    /\ [](\A t \in Tasks :
            call[t].pc = "refresh" => call[t].resp.status = HTTP_UNAUTHORIZED)
    /\ [][\A t \in Tasks :
            (/\ call[t].pc = "req1"
             /\ call[t]' # call[t]
             /\ call[t]'.resp = Resp(403, FALSE, "none")) =>
                /\ call[t]'.pc = "done"
                /\ call[t]'.result = "AuthError"
                /\ call[t]'.nRefresh = 0
                /\ call[t]'.sent = call[t].sent
                /\ Len(call[t]'.sent) = 1
                /\ access_token' = access_token
                /\ refresh_token' = refresh_token
                /\ consumer_id' = consumer_id]_vars

C27_Witness ==
    /\ call["cycle"].pc = "done"
    /\ call["cycle"].resp = Resp(403, FALSE, "none")
    /\ call["cycle"].result = "AuthError"
    /\ call["cycle"].nRefresh = 0
    /\ Len(call["cycle"].sent) = 1
    /\ refresh_token # NoToken

\* the HTTP requests one authenticated call has sent: the password grant,
\* the request and its retry, the refresh grant
RequestsSent(c) == c.nAuth + Len(c.sent) + c.nRefresh

\* C28: an authenticated call sends at most four requests (at most one
\* password grant, one refresh grant, one retry), a token call sends one
\* request and never refreshes or retries, each step takes the call forward,
\* and the call ends with a result or one of the gateway's typed errors.
C28_BoundedTypedCalls ==
    \A t \in Tasks :
        LET c == call[t] IN
        /\ RequestsSent(c) <= 4
        /\ c.nAuth <= 1 /\ c.nRefresh <= 1 /\ Len(c.sent) <= 2
        /\ c.pc \in {"auth", "grant"} => RequestsSent(c) = 1
        /\ c.pc = "req1" => Len(c.sent) = 1 /\ c.nRefresh = 0
        /\ c.pc = "refresh" => Len(c.sent) = 1 /\ c.nRefresh = 1
        /\ c.pc = "req2" => Len(c.sent) = 2 /\ c.nRefresh = 1
        /\ c.pc = "done" => c.result \in Taxonomy \cup {"ok"}

\* C29: every HVAC mode that async_set_hvac_mode accepts (every key of
\* HVAC_TO_ZEN_MODE) is translated to a mode that async_set_mode accepts:
\* the step starts a command request and does not end in the invalid-mode
\* error.
C29_AcceptedModesAreSent ==
    [][\A hvac_mode \in DOMAIN HVAC_TO_ZEN_MODE :
          SetHvacMode(hvac_mode) =>
              /\ cmdOutcome' = "running"
              /\ call["cmd"]'.req.kind = "command"]_vars

Online(record) == "isOnline" \in DOMAIN record /\ record.isOnline = TRUE

AnyAvailable(id) ==
    ClimateAvailable(id) \/ \E key \in SensorKeys : SensorAvailable(id, key)

\* C30: a climate or temperature-sensor entity is available only if the
\* last cycle succeeded and its device's record in the snapshot has isOnline
\* true; after a cycle that failed every entity is unavailable, after one
\* that succeeded the entities of devices absent from it and of devices
\* whose status fetch failed (their roster entry has no isOnline) are.
C30_AvailableOnlyIfFreshAndOnline ==
    /\ [](\A id \in entities :
            AnyAvailable(id) =>
                /\ last_update_success
                /\ id \in DOMAIN data
                /\ Online(data[id]))
    /\ [][(/\ cpc = "status"
           /\ call["cycle"].pc = "done"
           /\ call["cycle"].result # "ok") =>
              ~Online(device_data'[IdOf(devices[idx])])]_vars
    /\ [][(cpc = "end" /\ cpc' = "idle") =>
            \A id \in entities' :
                (\/ outcome # "ok"
                 \/ id \notin RosterIds(devices)
                 \/ ~Online(device_data[id])) => ~AnyAvailable(id)']_vars

C30_Witness ==
    /\ EntityDevice \in entities
    /\ cpc = "idle"
    /\ ~last_update_success
    /\ Online(DeviceData(EntityDevice))
    /\ ~AnyAvailable(EntityDevice)

\* C31: while a cycle runs and when it returns, every key of its mapping is
\* a non-empty device id of that cycle's roster, every status fetch issued
\* is for such an id, and no roster entry without an id (missing or empty)
\* has a key or a status fetch; the mapping is published as it stands.
C31_KeysAreRosterIds ==
    /\ [](cpc \in {"status", "end"} =>
            /\ DOMAIN device_data \subseteq RosterIds(devices)
            /\ fetched \subseteq RosterIds(devices)
            /\ DOMAIN device_data \subseteq fetched
            /\ NoneId \notin fetched /\ "" \notin fetched
            /\ NoneId \notin DOMAIN device_data /\ "" \notin DOMAIN device_data)
    /\ [](call["cycle"].req.kind = "status" =>
            /\ call["cycle"].req.arg \in RosterIds(devices)
            /\ call["cycle"].req.arg = IdOf(devices[idx]))
    /\ [][(cpc = "end" /\ outcome = "ok" /\ cpc' = "idle") =>
            /\ data' = device_data
            /\ DOMAIN data' = RosterIds(devices)]_vars

C31_Witness ==
    /\ cpc = "end"
    /\ outcome = "ok"
    /\ Len(devices) = 2
    /\ IdOf(devices[1]) = ""
    /\ IdOf(devices[2]) = "A"
    /\ DOMAIN device_data = {"A"}
    /\ fetched = {"A"}

\* C32: whatever the gateway's state, the string get_mode_string returned
\* is the fixed table's entry for the code it was given (0 and 1 heat, 2
\* cool, 3 off, 4 auto, 5 eco, 6 emergency_heat, 7 zen) and "unknown" for
\* every other code; the call leaves the gateway's state alone.
C32_ModeTable ==
    /\ [](mode_string # "none" =>
            mode_string =
                CASE mode_int \in {0, 1} -> "heat"
                  [] mode_int = 2 -> "cool"
                  [] mode_int = 3 -> "off"
                  [] mode_int = 4 -> "auto"
                  [] mode_int = 5 -> "eco"
                  [] mode_int = 6 -> "emergency_heat"
                  [] mode_int = 7 -> "zen"
                  [] OTHER -> "unknown")
    /\ [][modeVars' # modeVars =>
            <<gatewayVars, call, data>>' = <<gatewayVars, call, data>>]_vars

C32_Witness ==
    /\ mode_int = 1
    /\ mode_string = "heat"
    /\ access_token # NoToken
    /\ consumer_id # NoToken
    /\ published

====
